---- MODULE Spec2Model ----
(***************************************************************************)
(* BRVM API gateway (src/main.py, v0.4): a read-only FastAPI front of a    *)
(* PostgreSQL store.  The model holds the store's four tables, the module  *)
(* level session factory, the sessions handed out by get_db and the        *)
(* requests in flight; each handler is one action that runs its query      *)
(* and shapes the rows exactly as the Python does.                         *)
(***************************************************************************)
EXTENDS Integers, Sequences, FiniteSets, TLC

VARIABLES SessionLocal, db, workload, req, sessions, nextSession

vars == <<SessionLocal, db, workload, req, sessions, nextSession>>

(***************************************************************************)
(* Bounds of the model.                                                    *)
(***************************************************************************)
\* concurrent requests of the concurrency specifications
MaxRequests == 2
\* trading days on which a company may have a historical_data row
HistDays == 52
\* fundamental_analysis rows of a company
MaxFund == 2

(***************************************************************************)
(* Program constants.                                                      *)
(***************************************************************************)
\* "rhd.rn <= 50" in the WHERE clause of the analysis query
Window == 50

\* SQL NULL / Python None / JSON null, and a present value
None == [null |-> TRUE]
Some(v) == [null |-> FALSE, val |-> v]

(***************************************************************************)
(* Text.  A text is a sequence of characters; CharOrder lists the          *)
(* characters of the model in code point order.  "LF" is the line feed and *)
(* "KELVIN" is U+212A KELVIN SIGN, an upper case letter whose lower case   *)
(* is the ASCII k.                                                         *)
(***************************************************************************)
CharOrder ==
    <<"LF", "-", "0", "1", "2", "3", "4", "5", "6", "7", "8", "9",
      "A", "B", "K", "X", "Y", "Z", "a", "b", "k", "x", "y", "z", "KELVIN">>

Ord(c) == CHOOSE i \in 1..Len(CharOrder) : CharOrder[i] = c

\* str.upper() on one character
UpperChar(c) ==
    CASE c = "a" -> "A"
      [] c = "b" -> "B"
      [] c = "k" -> "K"
      [] c = "z" -> "Z"
      [] c = "x" -> "X"
      [] c = "y" -> "Y"
      [] OTHER -> c

\* str.lower() on one character
LowerChar(c) ==
    CASE c = "A" -> "a"
      [] c = "B" -> "b"
      [] c = "K" -> "k"
      [] c = "Z" -> "z"
      [] c = "X" -> "x"
      [] c = "Y" -> "y"
      [] c = "KELVIN" -> "k"
      [] OTHER -> c

\* symbol.upper()
Upper(s) == [i \in 1..Len(s) |-> UpperChar(s[i])]

Lower(s) == [i \in 1..Len(s) |-> LowerChar(s[i])]

IsAscii(s) == \A i \in 1..Len(s) : s[i] # "KELVIN"

RECURSIVE StrLess(_, _)
\* lexicographic order of two texts by code point
StrLess(s, t) ==
    IF t = <<>> THEN FALSE
    ELSE IF s = <<>> THEN TRUE
    ELSE IF Ord(Head(s)) # Ord(Head(t)) THEN Ord(Head(s)) < Ord(Head(t))
    ELSE StrLess(Tail(s), Tail(t))

(***************************************************************************)
(* Dates.  A trade_date is a day number (days since 1970-01-01);           *)
(* strftime('%Y-%m-%d') renders it through the proleptic Gregorian         *)
(* calendar.                                                               *)
(***************************************************************************)
DaysFromCivil(y0, m, d) ==
    LET y == IF m <= 2 THEN y0 - 1 ELSE y0
        era == y \div 400
        yoe == y - era * 400
        mp == IF m > 2 THEN m - 3 ELSE m + 9
        doy == (153 * mp + 2) \div 5 + d - 1
        doe == yoe * 365 + yoe \div 4 - yoe \div 100 + doy
    IN  era * 146097 + doe - 719468

CivilFromDays(n) ==
    LET z == n + 719468
        era == z \div 146097
        doe == z - era * 146097
        yoe == (doe - doe \div 1460 + doe \div 36524 - doe \div 146096) \div 365
        doy == doe - (365 * yoe + yoe \div 4 - yoe \div 100)
        mp == (5 * doy + 2) \div 153
        d == doy - (153 * mp + 2) \div 5 + 1
        m == IF mp < 10 THEN mp + 3 ELSE mp - 9
        y == yoe + era * 400 + (IF m <= 2 THEN 1 ELSE 0)
    IN  [year |-> y, month |-> m, day |-> d]

Digit(n) == CharOrder[n + 3]

\* two digits, zero padded (%m, %d)
Pad2(n) == <<Digit(n \div 10), Digit(n % 10)>>

\* four digits (%Y of a year in 1000..9999)
Year4(n) ==
    <<Digit(n \div 1000), Digit((n \div 100) % 10), Digit((n \div 10) % 10), Digit(n % 10)>>

\* trade_date.strftime('%Y-%m-%d')
strftime(n) ==
    LET c == CivilFromDays(n)
    IN  Year4(c.year) \o <<"-">> \o Pad2(c.month) \o <<"-">> \o Pad2(c.day)

\* the day before the first trading day of the model: 2024-11-11, so that the
\* trading days run over a month end and a year end
DayZero == DaysFromCivil(2024, 11, 11)

Day(i) == DayZero + i

(***************************************************************************)
(* The store.  db is a record of four tables, each a set of rows:          *)
(*   companies            [id, symbol, name]                               *)
(*   historical_data      [id, company_id, trade_date, price]              *)
(*   technical_analysis   [historical_data_id, mm_decision, ...]           *)
(*   fundamental_analysis [id, company_id, report_date, analysis_summary]  *)
(* price, the five decisions and analysis_summary are nullable.            *)
(***************************************************************************)

\* mutant: the rows numbered from the oldest, as ORDER BY trade_date ASC would
ROW_NUMBER_asc(d, h) ==
    1 + Cardinality({g \in d.historical_data :
                        g.company_id = h.company_id /\ g.trade_date < h.trade_date})

\* ROW_NUMBER() OVER(PARTITION BY company_id ORDER BY trade_date DESC); the
\* store holds one row per company and trade date, so the number is determined
ROW_NUMBER(d, h) ==
    1 + Cardinality({g \in d.historical_data :
                        g.company_id = h.company_id /\ g.trade_date > h.trade_date})

\* WITH ranked_historical_data AS (SELECT *, ROW_NUMBER() ... as rn FROM historical_data)
ranked_historical_data(d) ==
    {[id |-> h.id, company_id |-> h.company_id, trade_date |-> h.trade_date,
      price |-> h.price, rn |-> ROW_NUMBER(d, h)] : h \in d.historical_data}

\* mutant: the summaries oldest first, as ORDER BY fa.report_date ASC would
FundamentalOrders_asc(d, company_id) ==
    LET rows == {fa \in d.fundamental_analysis : fa.company_id = company_id}
        n == Cardinality(rows)
    IN  {s \in [1..n -> rows] :
            /\ \A i, j \in 1..n : i # j => s[i] # s[j]
            /\ \A i, j \in 1..n : i < j => s[i].report_date <= s[j].report_date}

\* the orders ORDER BY fa.report_date DESC allows for the company's rows
\* (rows of equal report_date come in any order)
FundamentalOrders(d, company_id) ==
    LET rows == {fa \in d.fundamental_analysis : fa.company_id = company_id}
        n == Cardinality(rows)
    IN  {s \in [1..n -> rows] :
            /\ \A i, j \in 1..n : i # j => s[i] # s[j]
            /\ \A i, j \in 1..n : i < j => s[i].report_date >= s[j].report_date}

RECURSIVE STRING_AGG(_, _)
\* STRING_AGG(value, delimiter) over the values in order: NULL values are
\* skipped, and the aggregate of no value is NULL
STRING_AGG(values, delimiter) ==
    IF values = <<>> THEN None
    ELSE LET rest == STRING_AGG(Tail(values), delimiter)
         IN  IF Head(values).null THEN rest
             ELSE IF rest.null THEN Head(values)
             ELSE Some(Head(values).val \o delimiter \o rest.val)

\* E'\n---\n'
Delimiter == <<"LF", "-", "-", "-", "LF">>

\* (SELECT STRING_AGG(fa.analysis_summary, E'\n---\n' ORDER BY fa.report_date DESC) ...)
fundamental_summaries(d, company_id) ==
    {STRING_AGG([i \in 1..Len(s) |-> s[i].analysis_summary], Delimiter) :
        s \in FundamentalOrders(d, company_id)}

\* rhd LEFT JOIN technical_analysis ta ON rhd.id = ta.historical_data_id
JoinTechnical(d, base, hid) ==
    LET tas == IF hid.null THEN {}
               ELSE {ta \in d.technical_analysis : ta.historical_data_id = hid.val}
    IN  IF tas = {}
        THEN {base @@ [mm_decision |-> None, bollinger_decision |-> None,
                       macd_decision |-> None, rsi_decision |-> None,
                       stochastic_decision |-> None]}
        ELSE {base @@ [mm_decision |-> ta.mm_decision,
                       bollinger_decision |-> ta.bollinger_decision,
                       macd_decision |-> ta.macd_decision,
                       rsi_decision |-> ta.rsi_decision,
                       stochastic_decision |-> ta.stochastic_decision] : ta \in tas}

\* FROM companies c LEFT JOIN ranked_historical_data rhd ... LEFT JOIN
\* technical_analysis ta ... WHERE c.symbol = :symbol AND (rhd.rn <= 50 OR rhd.rn IS NULL)
AnalysisRows(d, symbol, summaries) ==
    LET ranked == ranked_historical_data(d)
        OfCompany(c) ==
            LET rhds == {h \in ranked : h.company_id = c.id}
                head == [symbol |-> c.symbol, company_name |-> c.name,
                         fundamental_summaries |-> summaries]
            IN  IF rhds = {}
                THEN JoinTechnical(d, head @@ [trade_date |-> None, price |-> None], None)
                ELSE UNION {JoinTechnical(d, head @@ [trade_date |-> Some(h.trade_date),
                                                      price |-> h.price], Some(h.id))
                              : h \in {g \in rhds : g.rn <= Window}}
    IN  UNION {OfCompany(c) : c \in {k \in d.companies : k.symbol = symbol}}

\* ORDER BY ... ASC on a nullable date: NULL sorts last
DateBefore(a, b) ==
    IF a.null THEN FALSE ELSE IF b.null THEN TRUE ELSE a.val <= b.val

RECURSIVE OrderByTradeDate_desc(_)
\* mutant: the rows most recent first, as ORDER BY rhd.trade_date DESC would
OrderByTradeDate_desc(rows) ==
    IF rows = {} THEN <<>>
    ELSE LET first == CHOOSE r \in rows :
                          \A q \in rows : DateBefore(q.trade_date, r.trade_date)
                                              \/ q.trade_date = r.trade_date
         IN  <<first>> \o OrderByTradeDate_desc(rows \ {first})

RECURSIVE OrderByTradeDate(_)
\* ORDER BY rhd.trade_date ASC
OrderByTradeDate(rows) ==
    IF rows = {} THEN <<>>
    ELSE LET first == CHOOSE r \in rows :
                          \A q \in rows : DateBefore(r.trade_date, q.trade_date)
                                              \/ q.trade_date = r.trade_date
         IN  <<first>> \o OrderByTradeDate(rows \ {first})

\* the results db.execute(query, {"symbol": symbol}).fetchall() may return
AnalysisQuery(d, symbol) ==
    LET cs == {k \in d.companies : k.symbol = symbol}
    IN  IF cs = {} THEN {<<>>}
        ELSE LET c == CHOOSE k \in cs : TRUE
             IN  {OrderByTradeDate(AnalysisRows(d, symbol, fs)) :
                     fs \in fundamental_summaries(d, c.id)}

\* mutant: the first trading date of each company, as MIN(trade_date) would
latest_data_min(d) ==
    {[company_id |-> cid,
      last_date |-> CHOOSE t \in {h.trade_date : h \in {g \in d.historical_data : g.company_id = cid}} :
                        \A g \in d.historical_data : g.company_id = cid => g.trade_date >= t]
        : cid \in {h.company_id : h \in d.historical_data}}

\* WITH latest_data AS (SELECT company_id, MAX(trade_date) as last_date
\*                      FROM historical_data GROUP BY company_id)
latest_data(d) ==
    {[company_id |-> cid,
      last_date |-> CHOOSE t \in {h.trade_date : h \in {g \in d.historical_data : g.company_id = cid}} :
                        \A g \in d.historical_data : g.company_id = cid => g.trade_date <= t]
        : cid \in {h.company_id : h \in d.historical_data}}

\* FROM companies c JOIN latest_data ld ON c.id = ld.company_id
\* JOIN historical_data hd ON ld.company_id = hd.company_id AND ld.last_date = hd.trade_date
\* LEFT JOIN technical_analysis ta ON hd.id = ta.historical_data_id
ScreenerRows(d) ==
    UNION {JoinTechnical(d, [symbol |-> c.symbol, name |-> c.name, last_price |-> hd.price],
                         Some(hd.id))
             : <<c, ld, hd>> \in {t \in d.companies \X latest_data(d) \X d.historical_data :
                                     /\ t[1].id = t[2].company_id
                                     /\ t[2].company_id = t[3].company_id
                                     /\ t[2].last_date = t[3].trade_date}}

RECURSIVE OrderBySymbol(_)
\* ORDER BY c.symbol (symbol is unique among companies)
OrderBySymbol(rows) ==
    IF rows = {} THEN <<>>
    ELSE LET first == CHOOSE r \in rows : \A q \in rows : ~StrLess(q.symbol, r.symbol)
         IN  <<first>> \o OrderBySymbol(rows \ {first})

\* db.execute(query).fetchall() of the screener
ScreenerQuery(d) == OrderBySymbol(ScreenerRows(d))

\* SELECT symbol, name FROM companies ORDER BY symbol
CompaniesQuery(d) ==
    OrderBySymbol({[symbol |-> c.symbol, name |-> c.name] : c \in d.companies})

(***************************************************************************)
(* Python.  The outcome of a block is a return value or a raised exception;*)
(* HTTPException and SQLAlchemyError are both subclasses of Exception.     *)
(***************************************************************************)
Return(v) == [kind |-> "return", value |-> v]

HTTPException(status_code) ==
    [kind |-> "raise", type |-> "HTTPException", status_code |-> status_code]

SQLAlchemyError == [kind |-> "raise", type |-> "SQLAlchemyError", status_code |-> 0]

\* isinstance(e, cls)
IsInstance(e, cls) == cls = "Exception" \/ e.type = cls

\* try: <outcome> except cls: raise HTTPException(status_code)
TryExcept(outcome, cls, status_code) ==
    IF outcome.kind = "raise" /\ IsInstance(outcome, cls)
    THEN HTTPException(status_code)
    ELSE outcome

\* what the framework answers for the outcome of a handler or of a dependency
Response(outcome) ==
    IF outcome.kind = "return" THEN [status_code |-> 200, body |-> outcome.value]
    ELSE IF outcome.type = "HTTPException"
    THEN [status_code |-> outcome.status_code, body |-> None]
    ELSE [status_code |-> 500, body |-> None]

\* "Aucune analyse fondamentale disponible."
Fallback == <<"Aucune analyse fondamentale disponible.">>

\* truth value of an Optional[str]: None and '' are false
Truthy(text) == ~text.null /\ text.val # <<>>

RECURSIVE price_history(_)
\* [{"date": ..., "price": row.price} for row in result
\*    if row.trade_date and row.price is not None]
price_history(result) ==
    IF result = <<>> THEN <<>>
    ELSE LET row == Head(result)
         IN  (IF ~row.trade_date.null /\ ~row.price.null
              THEN <<[date |-> strftime(row.trade_date.val), price |-> row.price.val]>>
              ELSE <<>>) \o price_history(Tail(result))

\* mutant: the first row of the result, as result[0] would
LatestData_first(result) == result[1]

\* latest_data = result[-1]
LatestData(result) == result[Len(result)]

\* the dictionary analysis_data built from a non empty result
analysis_data(result) ==
    LET latest == LatestData(result)
    IN  [symbol |-> latest.symbol,
         company_name |-> latest.company_name,
         price_history |-> price_history(result),
         last_trade_date |-> IF latest.trade_date.null THEN None
                             ELSE Some(strftime(latest.trade_date.val)),
         last_price |-> latest.price,
         technical_analysis |->
            [moving_average_signal |-> latest.mm_decision,
             bollinger_bands_signal |-> latest.bollinger_decision,
             macd_signal |-> latest.macd_decision,
             rsi_signal |-> latest.rsi_decision,
             stochastic_signal |-> latest.stochastic_decision],
         fundamental_analysis |->
            IF Truthy(latest.fundamental_summaries)
            THEN latest.fundamental_summaries.val ELSE Fallback]

\* the body of the try block of get_full_analysis once the query returned
AnalysisTry(result) ==
    IF result = <<>> THEN HTTPException(404) ELSE Return(analysis_data(result))

\* get_full_analysis(symbol, db) given what db.execute did: executed is FALSE
\* when it raised, and result is what fetchall() returned otherwise
AnalysisOutcome(executed, result) ==
    TryExcept(IF executed THEN AnalysisTry(result) ELSE SQLAlchemyError, "Exception", 500)

\* mutant: the symbol bound as it came
NormalizedSymbol_raw(symbol) == symbol

\* symbol = symbol.upper()
NormalizedSymbol(symbol) == Upper(symbol)

\* the outcomes get_full_analysis(symbol, db) may have on a working database
AnalysisOutcomes(d, symbol) ==
    {AnalysisOutcome(TRUE, result) : result \in AnalysisQuery(d, NormalizedSymbol(symbol))}

\* screener_data = [{"symbol": row[0], ...} for row in result]
screener_data(result) ==
    [i \in 1..Len(result) |->
        [symbol |-> result[i].symbol, name |-> result[i].name,
         last_price |-> result[i].last_price,
         signal_mm |-> result[i].mm_decision,
         signal_bollinger |-> result[i].bollinger_decision,
         signal_macd |-> result[i].macd_decision,
         signal_rsi |-> result[i].rsi_decision,
         signal_stochastic |-> result[i].stochastic_decision]]

ScreenerOutcome(executed, d) ==
    TryExcept(IF executed THEN Return(screener_data(ScreenerQuery(d))) ELSE SQLAlchemyError,
              "Exception", 500)

CompaniesOutcome(executed, d) ==
    TryExcept(IF executed THEN Return(CompaniesQuery(d)) ELSE SQLAlchemyError,
              "Exception", 500)

\* mutant: the failed connectivity query answered like the other endpoints do
HealthOutcome_500(executed) ==
    TryExcept(IF executed
              THEN Return([status |-> "ok", database_connection |-> "successful"])
              ELSE SQLAlchemyError,
              "Exception", 500)

HealthOutcome(executed) ==
    TryExcept(IF executed
              THEN Return([status |-> "ok", database_connection |-> "successful"])
              ELSE SQLAlchemyError,
              "SQLAlchemyError", 503)

(***************************************************************************)
(* Store contents.  The gateway only reads the store; the contents the     *)
(* specifications start from keep the data model's keys: symbol unique     *)
(* among companies, one historical_data row per company and trade date,    *)
(* at most one technical_analysis row per historical_data row.             *)
(***************************************************************************)
AK == [id |-> 2, symbol |-> <<"A", "K">>, name |-> "Alpha Kappa"]

B == [id |-> 1, symbol |-> <<"B">>, name |-> "Beta"]

Signals == <<"BUY", "SELL", "NEUTRAL", "STRONG_BUY", "STRONG_SELL">>

Signal(k) == Some(Signals[(k % 5) + 1])

\* the historical_data row of company c on trading day i; the ids run against
\* the dates
HistRow(c, i, price) ==
    [id |-> c.id * 1000 + (HistDays + 1 - i), company_id |-> c.id,
     trade_date |-> Day(i), price |-> price]

Price(c, i) == Some(c.id * 100 + i)

TechRow(c, i) ==
    [historical_data_id |-> c.id * 1000 + (HistDays + 1 - i),
     mm_decision |-> Signal(i), bollinger_decision |-> Signal(i + 1),
     macd_decision |-> Signal(i + 2), rsi_decision |-> Signal(i + 3),
     stochastic_decision |-> Signal(i + 4)]

NoRows == [historical_data |-> {}, technical_analysis |-> {}]

\* company c has no row on day i, or one row with one of the prices, with or
\* without its technical_analysis row
DayOptions(c, i, prices, techs) ==
    {NoRows} \cup
    {[historical_data |-> {HistRow(c, i, p)},
      technical_analysis |-> IF t THEN {TechRow(c, i)} ELSE {}]
        : p \in prices, t \in techs}

\* rows on every day of 2..HistDays-2, priced, every second one annotated
Bulk(c) ==
    [historical_data |-> {HistRow(c, i, Price(c, i)) : i \in 2..(HistDays - 2)},
     technical_analysis |-> {TechRow(c, i) : i \in {j \in 2..(HistDays - 2) : j % 2 = 0}}]

Merge(a, b) ==
    [historical_data |-> a.historical_data \cup b.historical_data,
     technical_analysis |-> a.technical_analysis \cup b.technical_analysis]

\* long and short histories of company c: the oldest day and the two most
\* recent days vary freely, the days between are all there or all missing
Histories(c) ==
    {Merge(Merge(first, bulk), Merge(prev, last)) :
        first \in DayOptions(c, 1, {None, Price(c, 1)}, {FALSE}),
        bulk \in {NoRows, Bulk(c)},
        prev \in DayOptions(c, HistDays - 1, {None, Price(c, HistDays - 1)}, BOOLEAN),
        last \in DayOptions(c, HistDays, {None, Some(0), Price(c, HistDays)}, BOOLEAN)}

ShortHistories(c) ==
    {Merge(prev, last) :
        prev \in DayOptions(c, HistDays - 1, {Price(c, HistDays - 1)}, {TRUE}),
        last \in DayOptions(c, HistDays, {None, Price(c, HistDays)}, {FALSE})}

\* an analysis_summary of row i: NULL, the empty text or a text
Summaries(i) == {None, Some(<<>>), Some(IF i % 2 = 1 THEN <<"x">> ELSE <<"y", "z">>)}

\* every set of at most MaxFund fundamental_analysis rows of company c
Fundamentals(c) ==
    UNION {{{[id |-> c.id * 10 + i, company_id |-> c.id, report_date |-> Day(f[i].date),
              analysis_summary |-> f[i].summary] : i \in 1..n}
              : f \in {g \in [1..n -> [date : {1, 2}, summary : UNION {Summaries(i) : i \in 1..n}]] :
                          \A i \in 1..n : g[i].summary \in Summaries(i)}}
             : n \in 0..MaxFund}

FewFundamentals(c) ==
    {{}, {[id |-> c.id * 10 + 1, company_id |-> c.id, report_date |-> Day(1),
           analysis_summary |-> Some(<<"x">>)]}}

Store(companies, hist, fund) ==
    [companies |-> companies,
     historical_data |-> hist.historical_data,
     technical_analysis |-> hist.technical_analysis,
     fundamental_analysis |-> fund]

\* the other company: missing, without history, or with a short history
Others ==
    {[companies |-> {}, rows |-> NoRows, fund |-> {}],
     [companies |-> {B}, rows |-> NoRows, fund |-> {}]} \cup
    {[companies |-> {B}, rows |-> h, fund |-> f] :
        h \in ShortHistories(B) \ {NoRows}, f \in FewFundamentals(B) \ {{}}}

\* the store contents of StoreSpec: long histories of AK beside B without
\* history, every set of fundamental rows on a short history, and short
\* histories of both companies
Stores ==
    {Store({AK} \cup o.companies, Merge(h, o.rows), f \cup o.fund) :
        h \in Histories(AK), f \in FewFundamentals(AK),
        o \in {x \in Others : x.rows = NoRows}}
    \cup
    {Store({AK} \cup o.companies, Merge(h, o.rows), f \cup o.fund) :
        h \in {NoRows, [historical_data |-> {HistRow(AK, 1, Price(AK, 1))},
                        technical_analysis |-> {}]},
        f \in Fundamentals(AK),
        o \in {x \in Others : x.fund # {} \/ x.companies = {}}}
    \cup
    {Store({AK} \cup o.companies, Merge(h, o.rows), f \cup o.fund) :
        h \in ShortHistories(AK), f \in FewFundamentals(AK), o \in Others}
    \cup
    {Store(o.companies, o.rows, o.fund) : o \in Others}

\* the store contents of Spec
SmallStores ==
    {Store({}, NoRows, {}),
     Store({AK, B},
           [historical_data |-> {HistRow(AK, HistDays, Price(AK, HistDays))},
            technical_analysis |-> {}],
           {})}

(***************************************************************************)
(* Requests.  req[r] is a request in flight: where it stands (pc), its     *)
(* path, the session get_db handed it (0: none), whether db.execute        *)
(* worked ("none" before it ran) and the response.  sessions is the set of *)
(* the open sessions, nextSession the identity of the next one created.    *)
(***************************************************************************)
Endpoints == {"/", "/health-check", "/companies/", "/analysis/", "/screener/"}

Path(endpoint, symbol) == [endpoint |-> endpoint, symbol |-> symbol]

\* the symbols requested of /analysis/{symbol}
Symbols == {<<"A", "K">>, <<"a", "k">>, <<"A", "KELVIN">>, <<"B">>, <<"Z">>}

Paths ==
    {Path(e, <<>>) : e \in Endpoints \ {"/analysis/"}}
        \cup {Path("/analysis/", s) : s \in Symbols}

FewPaths ==
    {Path(e, <<>>) : e \in Endpoints \ {"/analysis/"}}
        \cup {Path("/analysis/", s) : s \in {<<"a", "k">>, <<"Z">>}}

Idle ==
    [pc |-> "idle", path |-> Path("", <<>>), session |-> 0, executed |-> "none",
     response |-> None]

Init ==
    /\ SessionLocal \in {"None", "sessionmaker"}
    /\ db \in SmallStores
    /\ workload = FewPaths
    /\ req = [r \in 1..MaxRequests |-> Idle]
    /\ sessions = {}
    /\ nextSession = 1

\* the start of LiveSpec: one store, one path per endpoint
InitLive ==
    /\ SessionLocal \in {"None", "sessionmaker"}
    /\ db \in {d \in SmallStores : d.companies # {}}
    /\ workload = {p \in FewPaths : p.symbol \in {<<>>, <<"a", "k">>}}
    /\ req = [r \in 1..MaxRequests |-> Idle]
    /\ sessions = {}
    /\ nextSession = 1

InitStore ==
    /\ SessionLocal = "sessionmaker"
    /\ db \in Stores
    /\ workload = Paths
    /\ req = [r \in {1} |-> Idle]
    /\ sessions = {}
    /\ nextSession = 1

\* a request arrives; "/" has no dependency, the others depend on get_db
Receive(r) ==
    /\ req[r].pc = "idle"
    /\ \E p \in workload :
          req' = [req EXCEPT ![r].path = p,
                             ![r].pc = IF p.endpoint = "/" THEN "handler" ELSE "depends"]
    /\ UNCHANGED <<SessionLocal, db, workload, sessions, nextSession>>

\* get_db up to its yield: raise when there is no session factory, else
\* db = SessionLocal()
get_db(r) ==
    /\ req[r].pc = "depends"
    /\ IF SessionLocal = "None"
       THEN /\ req' = [req EXCEPT ![r].pc = "done",
                                  ![r].response = Some(Response(HTTPException(500)))]
            /\ UNCHANGED <<sessions, nextSession>>
       ELSE /\ req' = [req EXCEPT ![r].pc = "handler", ![r].session = nextSession]
            /\ sessions' = sessions \cup {nextSession}
            /\ nextSession' = nextSession + 1
    /\ UNCHANGED <<SessionLocal, db, workload>>

\* mutant: db.close() after the yield without try/finally, skipped when the
\* handler raised
get_db_finally_leak(r) ==
    /\ req[r].pc = "finally"
    /\ sessions' = IF req[r].response.val.status_code = 200
                   THEN sessions \ {req[r].session} ELSE sessions
    /\ req' = [req EXCEPT ![r].pc = "done"]
    /\ UNCHANGED <<SessionLocal, db, workload, nextSession>>

\* get_db after its yield: finally: db.close()
get_db_finally(r) ==
    /\ req[r].pc = "finally"
    /\ sessions' = sessions \ {req[r].session}
    /\ req' = [req EXCEPT ![r].pc = "done"]
    /\ UNCHANGED <<SessionLocal, db, workload, nextSession>>

\* the handler of request r ends with the outcome
Finish(r, executed, outcome) ==
    req' = [req EXCEPT ![r].pc = IF req[r].session = 0 THEN "done" ELSE "finally",
                       ![r].executed = executed,
                       ![r].response = Some(Response(outcome))]

Executed(ok) == IF ok THEN "ok" ELSE "error"

read_root(r) ==
    /\ req[r].pc = "handler"
    /\ req[r].path.endpoint = "/"
    /\ Finish(r, "none", Return([status |-> "ok",
                                 message |-> "Bienvenue sur l'API d'Analyse BRVM !"]))
    /\ UNCHANGED <<SessionLocal, db, workload, sessions, nextSession>>

health_check(r) ==
    /\ req[r].pc = "handler"
    /\ req[r].path.endpoint = "/health-check"
    /\ \E ok \in BOOLEAN : Finish(r, Executed(ok), HealthOutcome(ok))
    /\ UNCHANGED <<SessionLocal, db, workload, sessions, nextSession>>

get_companies_list(r) ==
    /\ req[r].pc = "handler"
    /\ req[r].path.endpoint = "/companies/"
    /\ \E ok \in BOOLEAN : Finish(r, Executed(ok), CompaniesOutcome(ok, db))
    /\ UNCHANGED <<SessionLocal, db, workload, sessions, nextSession>>

get_full_analysis(r) ==
    /\ req[r].pc = "handler"
    /\ req[r].path.endpoint = "/analysis/"
    /\ \/ \E outcome \in AnalysisOutcomes(db, req[r].path.symbol) :
             Finish(r, "ok", outcome)
       \/ Finish(r, "error", AnalysisOutcome(FALSE, <<>>))
    /\ UNCHANGED <<SessionLocal, db, workload, sessions, nextSession>>

get_market_screener(r) ==
    /\ req[r].pc = "handler"
    /\ req[r].path.endpoint = "/screener/"
    /\ \E ok \in BOOLEAN : Finish(r, Executed(ok), ScreenerOutcome(ok, db))
    /\ UNCHANGED <<SessionLocal, db, workload, sessions, nextSession>>

\* what the framework does with a request it has received
Run(r) ==
    \/ get_db(r)
    \/ read_root(r)
    \/ health_check(r)
    \/ get_companies_list(r)
    \/ get_full_analysis(r)
    \/ get_market_screener(r)
    \/ get_db_finally(r)

Next ==
    \/ \E r \in DOMAIN req : Receive(r)
    \/ \E r \in DOMAIN req : get_db(r)
    \/ \E r \in DOMAIN req : read_root(r)
    \/ \E r \in DOMAIN req : health_check(r)
    \/ \E r \in DOMAIN req : get_companies_list(r)
    \/ \E r \in DOMAIN req : get_full_analysis(r)
    \/ \E r \in DOMAIN req : get_market_screener(r)
    \/ \E r \in DOMAIN req : get_db_finally(r)

Spec == Init /\ [][Next]_vars

StoreSpec == InitStore /\ [][Next]_vars

\* the framework keeps running the requests it has received
LiveSpec == InitLive /\ [][Next]_vars /\ WF_vars(\E r \in DOMAIN req : Run(r))

(***************************************************************************)
(* Vocabulary of the properties.                                           *)
(***************************************************************************)
Requests == DOMAIN req

Answered(r) == ~req[r].response.null

Status(r) == req[r].response.val.status_code

Body(r) == req[r].response.val.body

\* request r asked for /analysis/{symbol} and its query ran
AnalysisRan(r) ==
    /\ req[r].path.endpoint = "/analysis/"
    /\ Answered(r)
    /\ req[r].executed = "ok"

AnalysisSucceeded(r) == AnalysisRan(r) /\ Status(r) = 200

\* the companies whose symbol is the upper-cased symbol of request r
Matching(r) == {c \in db.companies : c.symbol = Upper(req[r].path.symbol)}

HistoryOf(c) == {h \in db.historical_data : h.company_id = c.id}

\* the rows of c on its n most recent trading days
MostRecent(c, n) ==
    {h \in HistoryOf(c) :
        Cardinality({g \in HistoryOf(c) : g.trade_date > h.trade_date}) < n}

TechnicalOf(h) == {ta \in db.technical_analysis : ta.historical_data_id = h.id}

FundamentalOf(c) == {fa \in db.fundamental_analysis : fa.company_id = c.id}

\* the keys of the data model
DataModelInvariants ==
    /\ \A c1, c2 \in db.companies : c1.symbol = c2.symbol => c1 = c2
    /\ \A h1, h2 \in db.historical_data :
          h1.company_id = h2.company_id /\ h1.trade_date = h2.trade_date => h1 = h2
    /\ \A h \in db.historical_data : Cardinality(TechnicalOf(h)) <= 1

\* C1: a request for a symbol that matches no company, on a working database,
\* is answered 404.
C1_UnknownSymbolIs404 ==
    \A r \in Requests :
        AnalysisRan(r) /\ Matching(r) = {} => Status(r) = 404

\* C2: a request for a company without any historical row is answered 404,
\* never with a success body.
C2_NoHistoryIs404 ==
    \A r \in Requests :
        AnalysisRan(r) /\ Matching(r) # {} /\ (\A c \in Matching(r) : HistoryOf(c) = {})
            => Status(r) = 404

\* C3: on a store that keeps the keys of the data model, the price_history of
\* a successful analysis has at most 50 entries, its dates ascend strictly,
\* and its entries are the priced rows among the company's 50 most recent
\* trading days.
C3_PriceHistoryWindow ==
    \A r \in Requests :
        AnalysisSucceeded(r) /\ DataModelInvariants =>
            LET ph == Body(r).price_history
            IN  /\ Len(ph) <= Window
                /\ \A i \in 1..(Len(ph) - 1) : StrLess(ph[i].date, ph[i + 1].date)
                /\ \A c \in Matching(r) :
                      {ph[i] : i \in 1..Len(ph)} =
                          {[date |-> strftime(h.trade_date), price |-> h.price.val] :
                              h \in {g \in MostRecent(c, Window) : ~g.price.null}}

\* a company with more than 50 rows was asked for and answered with 50 entries
C3_Witness ==
    \E r \in Requests :
        /\ AnalysisSucceeded(r)
        /\ \E c \in Matching(r) : Cardinality(HistoryOf(c)) > Window
        /\ Len(Body(r).price_history) = Window

\* request r asked for /screener/ and was answered with a success body
ScreenerSucceeded(r) ==
    /\ req[r].path.endpoint = "/screener/"
    /\ Answered(r)
    /\ Status(r) = 200

\* the row of c with the greatest trade_date
Latest(c) == CHOOSE h \in HistoryOf(c) : \A g \in HistoryOf(c) : g.trade_date <= h.trade_date

Listed == {c \in db.companies : HistoryOf(c) # {}}

\* C4: a successful screener has exactly one row for each company with a
\* historical row and none for the others, ordered by symbol ascending, and
\* each last_price is the price of the company's row of greatest trade_date.
C4_ScreenerRows ==
    \A r \in Requests :
        ScreenerSucceeded(r) =>
            LET rows == Body(r)
            IN  /\ Len(rows) = Cardinality(Listed)
                /\ {rows[i].symbol : i \in 1..Len(rows)} = {c.symbol : c \in Listed}
                /\ \A i \in 1..(Len(rows) - 1) : StrLess(rows[i].symbol, rows[i + 1].symbol)
                /\ \A i \in 1..Len(rows) : \A c \in Listed :
                      c.symbol = rows[i].symbol => rows[i].last_price = Latest(c).price

\* a screener of two listed companies, one of them with several rows
C4_Witness ==
    \E r \in Requests :
        /\ ScreenerSucceeded(r)
        /\ Len(Body(r)) = 2
        /\ \E c \in Listed : Cardinality(HistoryOf(c)) > 1

NoSignals ==
    [moving_average_signal |-> None, bollinger_bands_signal |-> None,
     macd_signal |-> None, rsi_signal |-> None, stochastic_signal |-> None]

SignalsOf(ta) ==
    [moving_average_signal |-> ta.mm_decision,
     bollinger_bands_signal |-> ta.bollinger_decision,
     macd_signal |-> ta.macd_decision,
     rsi_signal |-> ta.rsi_decision,
     stochastic_signal |-> ta.stochastic_decision]

\* C5: the five signals of a successful analysis are those of the
\* technical_analysis row of the company's most recent historical row, and
\* all five are null when that row has none, whatever older rows have.
C5_SignalsOfLatestRow ==
    \A r \in Requests :
        AnalysisSucceeded(r) =>
            \A c \in {k \in Matching(r) : HistoryOf(k) # {}} :
                IF TechnicalOf(Latest(c)) = {}
                THEN Body(r).technical_analysis = NoSignals
                ELSE \E ta \in TechnicalOf(Latest(c)) :
                        Body(r).technical_analysis = SignalsOf(ta)

\* the most recent row is not annotated, an older one is, and the signals
\* answered are null
C5_Witness ==
    \E r \in Requests :
        /\ AnalysisSucceeded(r)
        /\ \E c \in Matching(r) :
              /\ HistoryOf(c) # {}
              /\ TechnicalOf(Latest(c)) = {}
              /\ \E h \in HistoryOf(c) : TechnicalOf(h) # {}
        /\ Body(r).technical_analysis = NoSignals

\* C6 as claimed: whenever price_history is not empty, last_trade_date and
\* last_price are the date and price of its final entry.
C6_LastDuplicatesFinalEntry ==
    \A r \in Requests :
        AnalysisSucceeded(r) /\ Body(r).price_history # <<>> =>
            LET ph == Body(r).price_history
            IN  /\ Body(r).last_trade_date = Some(ph[Len(ph)].date)
                /\ Body(r).last_price = Some(ph[Len(ph)].price)

\* C6 as amended: last_trade_date and last_price are those of the company's
\* most recent historical row; they duplicate the final entry of
\* price_history when that row has a price, and when it has none last_price
\* is null and last_trade_date is a date later than every entry.
C6_LastIsLatestRow ==
    \A r \in Requests :
        AnalysisSucceeded(r) /\ Body(r).price_history # <<>> =>
            LET ph == Body(r).price_history
            IN  \A c \in Matching(r) :
                    /\ Body(r).last_trade_date = Some(strftime(Latest(c).trade_date))
                    /\ Body(r).last_price = Latest(c).price
                    /\ IF Latest(c).price.null
                       THEN StrLess(ph[Len(ph)].date, Body(r).last_trade_date.val)
                       ELSE /\ Body(r).last_trade_date = Some(ph[Len(ph)].date)
                            /\ Body(r).last_price = Some(ph[Len(ph)].price)

\* an older row without price is left out of price_history and the top level
\* fields duplicate the final entry
C6_Witness ==
    \E r \in Requests :
        /\ AnalysisSucceeded(r)
        /\ Body(r).price_history # <<>>
        /\ \E c \in Matching(r) :
              /\ ~Latest(c).price.null
              /\ \E h \in HistoryOf(c) : h.price.null
        /\ Body(r).last_price =
              Some(Body(r).price_history[Len(Body(r).price_history)].price)

\* the orders of a set of fundamental rows, newest report_date first
NewestFirst(rows) ==
    {s \in [1..Cardinality(rows) -> rows] :
        /\ \A i, j \in DOMAIN s : i # j => s[i] # s[j]
        /\ \A i, j \in DOMAIN s : i < j => s[i].report_date >= s[j].report_date}

RECURSIVE Concatenated(_)
\* the summaries of a non empty sequence of rows with the delimiter between them
Concatenated(s) ==
    IF Len(s) = 1 THEN s[1].analysis_summary.val
    ELSE s[1].analysis_summary.val \o Delimiter \o Concatenated(Tail(s))

\* the rows of c that carry a summary
Summarised(c) == {fa \in FundamentalOf(c) : ~fa.analysis_summary.null}

\* C9 as claimed: fundamental_analysis is the fallback text exactly when the
\* company has no fundamental_analysis row, and otherwise its summaries
\* newest report_date first with the delimiter between them.
C9_FallbackIffNoRows ==
    \A r \in Requests :
        AnalysisSucceeded(r) =>
            \A c \in Matching(r) :
                /\ Body(r).fundamental_analysis = Fallback <=> FundamentalOf(c) = {}
                /\ FundamentalOf(c) # {} =>
                      \E s \in NewestFirst(Summarised(c)) :
                          s # <<>> /\ Body(r).fundamental_analysis = Concatenated(s)

\* C9 as amended: the fallback text is answered exactly when the company has
\* no summary to show (no row, only rows with a NULL summary, or a single
\* summary that is the empty text); otherwise the answer is the non NULL
\* summaries, newest report_date first, with the delimiter between them.
C9_FallbackIffNoText ==
    \A r \in Requests :
        AnalysisSucceeded(r) =>
            \A c \in Matching(r) :
                LET empty == \/ Summarised(c) = {}
                             \/ \E fa \in Summarised(c) :
                                   Summarised(c) = {fa} /\ fa.analysis_summary.val = <<>>
                IN  /\ Body(r).fundamental_analysis = Fallback <=> empty
                    /\ FundamentalOf(c) = {} => empty
                    /\ ~empty =>
                          \E s \in NewestFirst(Summarised(c)) :
                              Body(r).fundamental_analysis = Concatenated(s)

\* two summaries of different report dates were answered, the newer first
C9_Witness ==
    \E r \in Requests :
        /\ AnalysisSucceeded(r)
        /\ \E c \in Matching(r) : \E f1, f2 \in Summarised(c) :
              /\ f1.report_date > f2.report_date
              /\ f1.analysis_summary.val # <<>>
              /\ f2.analysis_summary.val # <<>>
              /\ Summarised(c) = {f1, f2}
              /\ Body(r).fundamental_analysis =
                    f1.analysis_summary.val \o Delimiter \o f2.analysis_summary.val

\* what /analysis/{symbol} may answer on a working database
AnalysisAnswers(symbol) == {Response(o) : o \in AnalysisOutcomes(db, symbol)}

\* the symbols that request r sets against each other: the symbol it asked
\* for, and every symbol whose lower case it asked for
Counterparts(r) ==
    {s \in Symbols : s = req[r].path.symbol \/ Lower(s) = req[r].path.symbol}

\* C10 as claimed: for every symbol s, /analysis/{s} and
\* /analysis/{lowercase(s)} answer alike.
C10_CaseInsensitive ==
    \A r \in Requests :
        AnalysisRan(r) =>
            \A s \in Counterparts(r) :
                /\ req[r].response.val \in AnalysisAnswers(s)
                /\ req[r].response.val \in AnalysisAnswers(Lower(s))

\* C10 as amended: for every symbol s of ASCII characters, /analysis/{s} and
\* /analysis/{lowercase(s)} answer alike.
C10_CaseInsensitiveAscii ==
    \A r \in Requests :
        AnalysisRan(r) =>
            \A s \in {t \in Counterparts(r) : IsAscii(t)} :
                /\ req[r].response.val \in AnalysisAnswers(s)
                /\ req[r].response.val \in AnalysisAnswers(Lower(s))

\* the lower case of a company's symbol was asked for and answered with the
\* company's analysis
C10_Witness ==
    \E r \in Requests :
        /\ AnalysisSucceeded(r)
        /\ req[r].path.symbol # Upper(req[r].path.symbol)
        /\ \E s \in Symbols : s # req[r].path.symbol /\ Lower(s) = req[r].path.symbol
        /\ \E c \in db.companies : Body(r).symbol = c.symbol /\ HistoryOf(c) # {}

DatabaseBacked(r) ==
    req[r].path.endpoint \in {"/health-check", "/companies/", "/analysis/", "/screener/"}

\* the handler of r has started and get_db has not yet closed behind it
InHandler(r) == DatabaseBacked(r) /\ req[r].pc \in {"handler", "finally"}

SessionSafety ==
    /\ \A r \in Requests : InHandler(r) => req[r].session \in sessions
    /\ \A r \in Requests :
          DatabaseBacked(r) /\ Answered(r) /\ SessionLocal # "None" => req[r].session # 0
    /\ \A r1, r2 \in Requests :
          r1 # r2 /\ req[r1].session # 0 => req[r1].session # req[r2].session
    /\ \A r \in Requests : req[r].pc = "done" => req[r].session \notin sessions
    /\ \A s \in sessions : \E r \in Requests : InHandler(r) /\ req[r].session = s

\* C7: every handler of a database-backed endpoint runs with a session of its
\* own, no session belongs to two requests, a finished request (success,
\* not-found, database error) holds no open session, and every session opened
\* is eventually closed.
C7_SessionPerRequest ==
    /\ []SessionSafety
    /\ \A s \in 1..MaxRequests : (s \in sessions) ~> (s \notin sessions)

\* one request ended on a database error with its session closed while
\* another one runs with its own open session
C7_Witness ==
    \E r1, r2 \in Requests :
        /\ r1 # r2
        /\ req[r1].pc = "done"
        /\ req[r1].executed = "error"
        /\ req[r1].session # 0
        /\ req[r1].session \notin sessions
        /\ req[r2].pc = "handler"
        /\ req[r2].session \in sessions

HealthChecked(r) == req[r].path.endpoint = "/health-check" /\ Answered(r)

Healthy == [status |-> "ok", database_connection |-> "successful"]

\* C8 as claimed: /health-check answers 503 whenever the connectivity query
\* failed or the session factory was never initialised, and answers ok only
\* when the query succeeded.
C8_Unavailable503 ==
    \A r \in Requests :
        HealthChecked(r) =>
            /\ SessionLocal = "None" \/ req[r].executed = "error" => Status(r) = 503
            /\ Status(r) = 200 => req[r].executed = "ok" /\ Body(r) = Healthy

\* C8 as amended: /health-check answers 503 whenever the connectivity query
\* failed, answers 500 (from get_db, before the handler runs) when the session
\* factory was never initialised, and answers ok only when the query succeeded.
C8_Unavailable503Or500 ==
    \A r \in Requests :
        HealthChecked(r) =>
            /\ req[r].executed = "error" => Status(r) = 503
            /\ SessionLocal = "None" => Status(r) = 500 /\ req[r].executed = "none"
            /\ Status(r) = 200 => req[r].executed = "ok" /\ Body(r) = Healthy

\* the connectivity query failed and 503 was answered
C8_Witness ==
    \E r \in Requests :
        HealthChecked(r) /\ req[r].executed = "error" /\ Status(r) = 503

====
